---- MODULE Spec2Model ----
(***************************************************************************)
(* alexa-util: the file-backed profile store (src/src/config.rs), the      *)
(* validity gate of the skill-package export (src/src/apis.rs) and the     *)
(* response classification of the device-flow client (src/src/auth.rs).    *)
(*                                                                         *)
(* Time is counted in ticks, TicksPerSec ticks to the second, so that the  *)
(* sub-second part of Utc::now() and its loss in the ts_seconds encoding   *)
(* of the store file are visible.  Option<T> is a sequence of length 0 or  *)
(* 1.  u64 / i64 are scaled down to U64_BITS bits, keeping the wrap of     *)
(* `expires_in as i64` and the range check of chrono::Duration::seconds.   *)
(***************************************************************************)
EXTENDS Integers, Sequences, FiniteSets, TLC

(* ------------------------------ bounds --------------------------------- *)

\* last clock value (ticks) the model lets Utc::now() reach
MaxTime == 2
\* the same where the store is exercised
StoreMaxTime == 1
\* scaled width of u64 / i64
U64_BITS == 3
\* scaled chrono::Duration range: Duration::seconds(s) panics when |s| exceeds it
DURATION_MAX_SECS == 2

\* sub-second resolution of DateTime<Utc>: ticks per second
TicksPerSec == 2

Names == {"a", "b"}
\* locally owned Config values (besides the static CONFIG)
Instances == {1, 2}
\* the credential sets (access token, refresh token, vendor id) handed out
Creds == {1, 2}
\* expires_in: u64 values tried: immediate expiry, one second, the first value
\* Duration::seconds rejects, and the largest u64 (which `as i64` wraps to -1)
ExpiresInValues == {0, 1, DURATION_MAX_SECS + 1, 2^U64_BITS - 1}
\* the values among them used where the store is exercised
StoreExpiresIn == {1, DURATION_MAX_SECS + 1}
\* and where the export is: expired at once, or valid for a second
ExportExpiresIn == {0, 1}

(* ------------------------------ Option<T> ------------------------------ *)

None == <<>>
Some(x) == <<x>>
is_some(o) == o # <<>>
unwrap(o) == o[1]

(* ---------------------------- ConfigProfile ---------------------------- *)

AccessToken(g) == <<"access", g>>
RefreshToken(g) == <<"refresh", g>>
VendorId(g) == <<"vendor", g>>

ConfigProfile_new(name) ==
    [ name          |-> name,
      vendor_id     |-> None,
      access_token  |-> None,
      refresh_token |-> None,
      token_type    |-> "Bearer",
      expires_at    |-> None ]

\* `expires_in as i64`: two's-complement reinterpretation
as_i64(x) == IF x >= 2^(U64_BITS - 1) THEN x - 2^U64_BITS ELSE x

\* chrono::Duration::seconds panics outside its range (config.rs:118)
init_panics(expires_in) ==
    \/ as_i64(expires_in) > DURATION_MAX_SECS
    \/ as_i64(expires_in) < -DURATION_MAX_SECS

init_no_vendor(p, access_token, refresh_token, expires_in, vendor_id, now_) ==
    [ p EXCEPT !.access_token  = Some(access_token),
               !.refresh_token = Some(refresh_token),
               !.expires_at    = Some(now_ + as_i64(expires_in) * TicksPerSec) ]

init_no_refresh(p, access_token, refresh_token, expires_in, vendor_id, now_) ==
    [ p EXCEPT !.vendor_id     = Some(vendor_id),
               !.access_token  = Some(access_token),
               !.expires_at    = Some(now_ + as_i64(expires_in) * TicksPerSec) ]

\* ConfigProfile::init when line 118 does not panic
init(p, access_token, refresh_token, expires_in, vendor_id, now_) ==
    [ p EXCEPT !.vendor_id     = Some(vendor_id),
               !.access_token  = Some(access_token),
               !.refresh_token = Some(refresh_token),
               !.expires_at    = Some(now_ + as_i64(expires_in) * TicksPerSec) ]

is_initialized_always(p) == TRUE

is_initialized(p) == is_some(p.access_token)

is_valid_by_expiry_only(p, now_) ==
    IF is_some(p.expires_at) THEN unwrap(p.expires_at) > now_ ELSE TRUE

is_valid(p, now_) ==
    /\ is_initialized(p)
    /\ IF is_some(p.expires_at) THEN unwrap(p.expires_at) > now_ ELSE FALSE

(* ------------------------ the store file (JSON) ------------------------ *)

\* chrono::serde::ts_seconds_option: DateTime::timestamp(), whole seconds
ts_seconds_millis(t) == IF is_some(t) THEN Some(unwrap(t)) ELSE None

ts_seconds_serialize(t) ==
    IF is_some(t) THEN Some(unwrap(t) \div TicksPerSec) ELSE None

ts_seconds_deserialize(s) ==
    IF is_some(s) THEN Some(unwrap(s) * TicksPerSec) ELSE None

SerializeProfile(p) ==
    [ p EXCEPT !.expires_at = ts_seconds_serialize(p.expires_at) ]

DeserializeProfile(j) ==
    [ j EXCEPT !.expires_at = ts_seconds_deserialize(j.expires_at) ]

SerializeConfig(profiles) ==
    [ k \in 1..Len(profiles) |-> SerializeProfile(profiles[k]) ]

DeserializeConfig(doc) ==
    [ k \in 1..Len(doc) |-> DeserializeProfile(doc[k]) ]

FileAbsent == [ state |-> "absent", profiles |-> <<>> ]
FileMalformed == [ state |-> "malformed", profiles |-> <<>> ]
FileDoc(doc) == [ state |-> "ok", profiles |-> doc ]

\* outcomes of Config::write: success; create_dir_all or File::create failed
\* (file untouched); File::create truncated the file and to_writer_pretty failed
WriteOutcomes == {"ok", "err_before", "err_partial"}

write_file(f, profiles, outcome) ==
    CASE outcome = "ok"          -> FileDoc(SerializeConfig(profiles))
      [] outcome = "err_before"  -> f
      [] outcome = "err_partial" -> FileMalformed

write_result(outcome) == IF outcome = "ok" THEN "Ok" ELSE "IoError"

\* outcomes of File::open on an existing path
OpenOutcomes == {"ok", "io_err"}

\* Config::from_file: the result tag and the loaded profiles
from_file_result(f, open) ==
    IF f.state = "absent" \/ open = "io_err" THEN "IoError"
    ELSE IF f.state = "malformed" THEN "SerdeError"
    ELSE "Ok"

from_file_profiles(f) == DeserializeConfig(f.profiles)

exists(f) == f.state # "absent"

(* ------------------------------- Config -------------------------------- *)

Min(S) == CHOOSE m \in S : \A n \in S : m <= n

get_profile(profiles, name) ==
    LET hits == { k \in 1..Len(profiles) : profiles[k].name = name }
    IN  IF hits = {} THEN None ELSE Some(profiles[Min(hits)])

Config_new_no_write(f) ==
    IF exists(f)
    THEN { [ result   |-> from_file_result(f, open),
             profiles |-> from_file_profiles(f),
             file     |-> f ] : open \in OpenOutcomes }
    ELSE { [ result |-> "Ok", profiles |-> <<>>, file |-> f ] }

\* Config::new: every outcome [result, profiles, file] on file f.  When the
\* first write of the absent branch fails, `config` is dropped on the error
\* return and Drop writes once more, its result ignored.
Config_new_outcomes(f) ==
    IF exists(f)
    THEN { [ result   |-> from_file_result(f, open),
             profiles |-> from_file_profiles(f),
             file     |-> f ] : open \in OpenOutcomes }
    ELSE { [ result   |-> "Ok",
             profiles |-> <<>>,
             file     |-> write_file(f, <<>>, "ok") ] }
         \cup
         { [ result   |-> "IoError",
             profiles |-> <<>>,
             file     |-> write_file(write_file(f, <<>>, w1), <<>>, w2) ]
           : w1 \in WriteOutcomes \ {"ok"}, w2 \in WriteOutcomes }

add_profile_no_check(profiles, profile, f) ==
    { [ result   |-> write_result(w),
        profiles |-> Append(profiles, profile),
        file     |-> write_file(f, Append(profiles, profile), w) ]
      : w \in WriteOutcomes }

add_profile_no_write(profiles, profile, f) ==
    IF is_some(get_profile(profiles, profile.name))
    THEN { [ result |-> "AlreadyExists", profiles |-> profiles, file |-> f ] }
    ELSE { [ result |-> "Ok", profiles |-> Append(profiles, profile), file |-> f ] }

add_profile_overwrite(profiles, profile, f) ==
    IF is_some(get_profile(profiles, profile.name))
    THEN { [ result   |-> "AlreadyExists",
             profiles |-> [ k \in 1..Len(profiles) |->
                              IF profiles[k].name = profile.name
                              THEN profile ELSE profiles[k] ],
             file     |-> f ] }
    ELSE add_profile_no_check(profiles, profile, f)

\* Config::add_profile: every outcome [result, profiles, file]
add_profile_outcomes(profiles, profile, f) ==
    IF is_some(get_profile(profiles, profile.name))
    THEN { [ result |-> "AlreadyExists", profiles |-> profiles, file |-> f ] }
    ELSE { [ result   |-> write_result(w),
             profiles |-> Append(profiles, profile),
             file     |-> write_file(f, Append(profiles, profile), w) ]
           : w \in WriteOutcomes }

\* Config::write called by the owner of the store
write_outcomes(profiles, f) ==
    { [ result |-> write_result(w), profiles |-> profiles,
        file |-> write_file(f, profiles, w) ] : w \in WriteOutcomes }

\* Config::read: on success the temporary Config loaded by from_file is
\* dropped at the end of read, and its Drop writes it back (result ignored)
read_outcomes(profiles, f) ==
    UNION { IF from_file_result(f, open) = "Ok"
            THEN { [ result   |-> "Ok",
                     profiles |-> from_file_profiles(f),
                     file     |-> write_file(f, from_file_profiles(f), w) ]
                   : w \in WriteOutcomes }
            ELSE { [ result   |-> from_file_result(f, open),
                     profiles |-> profiles,
                     file     |-> f ] }
          : open \in OpenOutcomes }

drop_no_flush(profiles, f) ==
    { [ file |-> f, printed |-> "" ] }

\* Drop for Config: write, a failure only printed on stderr
drop_outcomes(profiles, f) ==
    { [ file    |-> write_file(f, profiles, w),
        printed |-> IF w = "ok" THEN "" ELSE "Failed to write config" ]
      : w \in WriteOutcomes }

(* ------------------- apis.rs: export_skill_package --------------------- *)

BearerHeader(profile) == <<"Bearer ", unwrap(profile.access_token)>>

export_gate_no_validity(profiles, profile_name, now_) ==
    LET found == get_profile(profiles, profile_name)
    IN  IF ~is_some(found)
        THEN [ result |-> "panic_not_found", request |-> None ]
        ELSE IF ~is_initialized(unwrap(found))
        THEN [ result |-> "panic_not_valid", request |-> None ]
        ELSE [ result |-> "sent", request |-> Some(BearerHeader(unwrap(found))) ]

\* lines 31-53: lookup, validity check, and the request that is sent
export_gate(profiles, profile_name, now_) ==
    LET found == get_profile(profiles, profile_name)
    IN  IF ~is_some(found)
        THEN [ result |-> "panic_not_found", request |-> None ]
        ELSE IF ~is_valid(unwrap(found), now_)
        THEN [ result |-> "panic_not_valid", request |-> None ]
        ELSE [ result |-> "sent", request |-> Some(BearerHeader(unwrap(found))) ]

(* --------------------- auth.rs: response bodies ------------------------ *)

\* a serde_json::Value in a field or an array slot
JAbsent == [ t |-> "absent", s |-> "", n |-> 0 ]
JNull == [ t |-> "null", s |-> "", n |-> 0 ]
JStr(x) == [ t |-> "str", s |-> x, n |-> 0 ]
JNum(k) == [ t |-> "num", s |-> "", n |-> k ]

Fields ==
    { "error", "error_description", "access_token", "refresh_token",
      "token_type", "expires_in", "user_code", "device_code",
      "verification_uri", "interval" }

JObject(fields) == [ kind |-> "object", fields |-> fields, items |-> <<>> ]
JArray(items) == [ kind |-> "array", fields |-> [ f \in Fields |-> JAbsent ], items |-> items ]
JScalar(v) == [ kind |-> "scalar", fields |-> [ f \in Fields |-> JAbsent ], items |-> <<v>> ]

\* the structs of mod models, fields in declaration order
ErrorResponse ==
    << <<"error", "String">>, <<"error_description", "Option<String>">> >>
CodePairResponse ==
    << <<"user_code", "String">>, <<"device_code", "String">>,
       <<"verification_uri", "String">>, <<"expires_in", "i64">>,
       <<"interval", "u64">> >>
TokenResponse ==
    << <<"access_token", "String">>, <<"refresh_token", "String">>,
       <<"token_type", "String">>, <<"expires_in", "u64">> >>

\* whether JSON value v deserializes as type ty
deserializes_as(v, ty) ==
    CASE ty = "String"         -> v.t = "str"
      [] ty = "Option<String>" -> v.t \in {"absent", "null", "str"}
      [] ty = "u64"            -> v.t = "num" /\ v.n >= 0
      [] ty = "i64"            -> v.t = "num"

\* serde_json::from_value::<T>(body).is_ok() for a derived struct T: a map
\* with every field of its type (unknown fields ignored, a missing field an
\* error unless it is an Option), or an array of exactly the fields in order
from_value_is_ok(body, T) ==
    CASE body.kind = "object" ->
            \A k \in 1..Len(T) : deserializes_as(body.fields[T[k][1]], T[k][2])
      [] body.kind = "array" ->
            /\ Len(body.items) = Len(T)
            /\ \A k \in 1..Len(T) : deserializes_as(body.items[k], T[k][2])
      [] OTHER -> FALSE

\* err_res.error of a body that decodes as ErrorResponse
error_of(body) ==
    IF body.kind = "object" THEN body.fields["error"].s ELSE body.items[1].s

\* AuthorizationError::from_error_response
\* from_error_response with the slow_down arm returning the variant of the
\* arm above it
from_error_response_merged_arms(error) ==
    CASE error = "invalid_request"           -> [ kind |-> "Err", value |-> "InvalidRequest" ]
      [] error = "unauthorized_client"       -> [ kind |-> "Err", value |-> "UnauthorizedClient" ]
      [] error = "access_denied"             -> [ kind |-> "Err", value |-> "AccessDenied" ]
      [] error = "unsupported_response_type" -> [ kind |-> "Err", value |-> "UnsupportedResponseType" ]
      [] error = "invalid_scope"             -> [ kind |-> "Err", value |-> "InvalidScope" ]
      [] error = "server_error"              -> [ kind |-> "Err", value |-> "ServerError" ]
      [] error = "temporarily_unavailable"   -> [ kind |-> "Err", value |-> "TemporarilyUnavailable" ]
      [] error = "authorization_pending"     -> [ kind |-> "Err", value |-> "AuthorizationPending" ]
      [] error = "slow_down"                 -> [ kind |-> "Err", value |-> "AuthorizationPending" ]
      [] error = "expired_token"             -> [ kind |-> "Err", value |-> "ExpiredToken" ]
      [] OTHER                               -> [ kind |-> "panic", value |-> "Unknown error type" ]

from_error_response(error) ==
    CASE error = "invalid_request"           -> [ kind |-> "Err", value |-> "InvalidRequest" ]
      [] error = "unauthorized_client"       -> [ kind |-> "Err", value |-> "UnauthorizedClient" ]
      [] error = "access_denied"             -> [ kind |-> "Err", value |-> "AccessDenied" ]
      [] error = "unsupported_response_type" -> [ kind |-> "Err", value |-> "UnsupportedResponseType" ]
      [] error = "invalid_scope"             -> [ kind |-> "Err", value |-> "InvalidScope" ]
      [] error = "server_error"              -> [ kind |-> "Err", value |-> "ServerError" ]
      [] error = "temporarily_unavailable"   -> [ kind |-> "Err", value |-> "TemporarilyUnavailable" ]
      [] error = "authorization_pending"     -> [ kind |-> "Err", value |-> "AuthorizationPending" ]
      [] error = "slow_down"                 -> [ kind |-> "Err", value |-> "SlowDown" ]
      [] error = "expired_token"             -> [ kind |-> "Err", value |-> "ExpiredToken" ]
      [] OTHER                               -> [ kind |-> "panic", value |-> "Unknown error type" ]

classify_success_first(body, T) ==
    IF from_value_is_ok(body, T)
    THEN [ kind |-> "Ok", value |-> "" ]
    ELSE IF from_value_is_ok(body, ErrorResponse)
    THEN from_error_response(error_of(body))
    ELSE [ kind |-> "panic", value |-> "Unknown response" ]

\* the three if-let / panic steps after the body is parsed (auth.rs:32-40,
\* 67-75, 102-110), T the success struct of the operation
classify(body, T) ==
    IF from_value_is_ok(body, ErrorResponse)
    THEN from_error_response(error_of(body))
    ELSE IF from_value_is_ok(body, T)
    THEN [ kind |-> "Ok", value |-> "" ]
    ELSE [ kind |-> "panic", value |-> "Unknown response" ]

\* what the transport delivers: send() fails, the body is not JSON, or JSON
NetOutcomes == {"send_err", "not_json", "json"}

\* outcome of one call given the transport outcome and the JSON body
call_outcome(net, body, T) ==
    IF net = "json" THEN classify(body, T)
    ELSE [ kind |-> "Err", value |-> "FetchError" ]

\* error codes the server is made to send: the ten known ones, an unknown
\* one, and a known one in another letter case
ErrorCodes ==
    { "invalid_request", "unauthorized_client", "access_denied",
      "unsupported_response_type", "invalid_scope", "server_error",
      "temporarily_unavailable", "authorization_pending", "slow_down",
      "expired_token", "invalid_grant", "SLOW_DOWN" }

ErrorParts == { JAbsent, JNull, JNum(1) } \cup { JStr(c) : c \in ErrorCodes }
DescriptionParts == { JAbsent, JNull, JStr("text"), JNum(1) }
TokenParts == { "none", "full", "no_refresh_token", "negative_expires_in" }
CodePairParts == { "none", "full", "negative_interval" }

\* the object with the chosen error fields, token fields and code-pair fields
BodyObject(err, desc, tok, cp) ==
    JObject([ f \in Fields |->
        CASE f = "error" -> err
          [] f = "error_description" -> desc
          [] f \in {"access_token", "token_type"} ->
                IF tok = "none" THEN JAbsent ELSE JStr(f)
          [] f = "refresh_token" ->
                IF tok \in {"none", "no_refresh_token"} THEN JAbsent ELSE JStr(f)
          [] f = "expires_in" ->
                IF tok = "negative_expires_in" THEN JNum(-1)
                ELSE IF tok = "none" /\ cp = "none" THEN JAbsent
                ELSE JNum(1)
          [] f \in {"user_code", "device_code", "verification_uri"} ->
                IF cp = "none" THEN JAbsent ELSE JStr(f)
          [] f = "interval" ->
                IF cp = "none" THEN JAbsent
                ELSE IF cp = "negative_interval" THEN JNum(-1)
                ELSE JNum(1) ])

\* token fields or code-pair fields, not both
SuccessParts ==
    { tc \in TokenParts \X CodePairParts : tc[1] = "none" \/ tc[2] = "none" }

Bodies ==
    { BodyObject(err, desc, tc[1], tc[2]) :
        err \in ErrorParts, desc \in DescriptionParts, tc \in SuccessParts }
    \cup
    { JArray(<<JStr("slow_down"), JNull>>),
      JArray(<<JStr("slow_down"), JStr("text")>>),
      JArray(<<JStr("slow_down")>>),
      JArray(<<JStr("a"), JStr("r"), JStr("Bearer"), JNum(1)>>),
      JArray(<<JStr("u"), JStr("d"), JStr("uri"), JNum(1), JNum(1)>>),
      JArray(<<>>),
      JScalar(JStr("slow_down")), JScalar(JNum(1)), JScalar(JNull) }

(* ------------------------------- state --------------------------------- *)

VARIABLES
    now,      \* Utc::now(), in ticks
    file,     \* the store file at CONFIG_PATH
    CONFIG,   \* the lazy static CONFIG: [state, profiles]
    cfg,      \* locally owned Config values: Option of the profile list
    prof,     \* a locally owned ConfigProfile: Option
    last,     \* the call that returned last: [op, inst, result, name, request]
    wire,     \* the last device-flow call: [op, url, grant_type, net, body, follow,
              \* exchanges, outcome]
    issued    \* the arguments of the init call that set prof's tokens:
              \* Option of [at, expires_in]

vars == <<now, file, CONFIG, cfg, prof, last, wire, issued>>

NoBody == JScalar(JNull)

Call(op, inst, result, name, request) ==
    [ op |-> op, inst |-> inst, result |-> result, name |-> name,
      request |-> request ]

Init ==
    /\ now = 0
    /\ file \in {FileAbsent, FileMalformed}
    /\ CONFIG = [ state |-> "uninit", profiles |-> <<>> ]
    /\ cfg = [ i \in Instances |-> None ]
    /\ prof = None
    /\ last = Call("start", 0, "Ok", "", None)
    /\ wire = [ op |-> "none", url |-> "", grant_type |-> "", net |-> "",
                body |-> NoBody, follow |-> NoBody, exchanges |-> 0,
                outcome |-> [ kind |-> "", value |-> "" ] ]
    /\ issued = None
    /\ issued = None

\* the clock advances
Tick(limit) ==
    /\ now < limit
    /\ now' = now + 1
    /\ last' = Call("tick", 0, "Ok", "", None)
    /\ UNCHANGED <<file, CONFIG, cfg, prof, wire, issued>>

\* let config = Config::new()
Config_new(i) ==
    /\ cfg[i] = None
    /\ \E o \in Config_new_outcomes(file) :
         /\ cfg' = [ cfg EXCEPT ![i] = IF o.result = "Ok" THEN Some(o.profiles) ELSE None ]
         /\ file' = o.file
         /\ last' = Call("new", i, o.result, "", None)
    /\ UNCHANGED <<now, CONFIG, prof, wire, issued>>

\* config.add_profile(&profile)
add_profile(i) ==
    /\ is_some(cfg[i])
    /\ is_some(prof)
    /\ \E o \in add_profile_outcomes(unwrap(cfg[i]), unwrap(prof), file) :
         /\ cfg' = [ cfg EXCEPT ![i] = Some(o.profiles) ]
         /\ file' = o.file
         /\ last' = Call("add_profile", i, o.result, unwrap(prof).name, None)
    /\ UNCHANGED <<now, CONFIG, prof, wire, issued>>

\* config.write()
write(i) ==
    /\ is_some(cfg[i])
    /\ \E o \in write_outcomes(unwrap(cfg[i]), file) :
         /\ file' = o.file
         /\ last' = Call("write", i, o.result, "", None)
    /\ UNCHANGED <<now, CONFIG, cfg, prof, wire, issued>>

\* config.read()
read(i) ==
    /\ is_some(cfg[i])
    /\ \E o \in read_outcomes(unwrap(cfg[i]), file) :
         /\ cfg' = [ cfg EXCEPT ![i] = Some(o.profiles) ]
         /\ file' = o.file
         /\ last' = Call("read", i, o.result, "", None)
    /\ UNCHANGED <<now, CONFIG, prof, wire, issued>>

\* a locally owned Config goes out of scope; nothing is returned, and
\* last.name carries what Drop printed
Drop(i) ==
    /\ is_some(cfg[i])
    /\ \E o \in drop_outcomes(unwrap(cfg[i]), file) :
         /\ file' = o.file
         /\ last' = Call("drop", i, "Ok", o.printed, None)
    /\ cfg' = [ cfg EXCEPT ![i] = None ]
    /\ UNCHANGED <<now, CONFIG, prof, wire, issued>>

\* let mut profile = ConfigProfile::new(name)
NewProfile(name) ==
    /\ prof' = Some(ConfigProfile_new(name))
    /\ issued' = None
    /\ last' = Call("ConfigProfile::new", 0, "Ok", name, None)
    /\ UNCHANGED <<now, file, CONFIG, cfg, wire>>

\* profile.init(access_token, refresh_token, expires_in, vendor_id); a panic
\* on line 118 unwinds through the owner of the profile, which is dropped
InitProfile(g, expires_in) ==
    /\ is_some(prof)
    /\ IF init_panics(expires_in)
       THEN /\ prof' = None
            /\ issued' = None
            /\ last' = Call("init", g, "panic", unwrap(prof).name, None)
       ELSE /\ prof' = Some(init(unwrap(prof), AccessToken(g), RefreshToken(g),
                                 expires_in, VendorId(g), now))
            /\ issued' = Some([ at |-> now, expires_in |-> expires_in ])
            /\ last' = Call("init", g, "Ok", unwrap(prof).name, None)
    /\ UNCHANGED <<now, file, CONFIG, cfg, wire>>

\* export_skill_package(profile_name, ..): the first use of CONFIG runs
\* Config::new().expect(..); a failed initialisation poisons the static
export_skill_package(profile_name) ==
    /\ \/ /\ CONFIG.state = "uninit"
          /\ \E o \in Config_new_outcomes(file) :
               /\ file' = o.file
               /\ IF o.result = "Ok"
                  THEN /\ CONFIG' = [ state |-> "ready", profiles |-> o.profiles ]
                       /\ \E sent \in {"Ok", "Err"} :
                            LET g == export_gate(o.profiles, profile_name, now)
                            IN last' = Call("export", 0,
                                            IF g.result = "sent" THEN sent ELSE g.result,
                                            profile_name, g.request)
                  ELSE /\ CONFIG' = [ state |-> "poisoned", profiles |-> <<>> ]
                       /\ last' = Call("export", 0, "panic_config", profile_name, None)
       \/ /\ CONFIG.state = "poisoned"
          /\ last' = Call("export", 0, "panic_config", profile_name, None)
          /\ UNCHANGED <<file, CONFIG>>
       \/ /\ CONFIG.state = "ready"
          /\ \E sent \in {"Ok", "Err"} :
               LET g == export_gate(CONFIG.profiles, profile_name, now)
               IN last' = Call("export", 0,
                               IF g.result = "sent" THEN sent ELSE g.result,
                               profile_name, g.request)
          /\ UNCHANGED <<file, CONFIG>>
    /\ UNCHANGED <<now, cfg, prof, wire, issued>>

(* ---------------------- auth.rs: the three calls ----------------------- *)

\* the answers the server would give to a second request, were one made
FollowUps ==
    { BodyObject(JAbsent, JAbsent, "full", "none"),
      BodyObject(JAbsent, JAbsent, "none", "full") }

\* outcomes a polling loop would take as a reason to ask again
AsksAgain(outcome) ==
    /\ outcome.kind = "Err"
    /\ outcome.value \in {"AuthorizationPending", "SlowDown", "FetchError"}

single_attempt_retrying(net, body, follow, T) ==
    IF AsksAgain(call_outcome(net, body, T))
    THEN [ outcome |-> classify(follow, T), exchanges |-> 2 ]
    ELSE [ outcome |-> call_outcome(net, body, T), exchanges |-> 1 ]

\* the body of each of the three functions: one send().await, one
\* classification, no loop; `follow` is never asked for
single_attempt(net, body, follow, T) ==
    [ outcome |-> call_outcome(net, body, T), exchanges |-> 1 ]

\* one call: a single POST, then the classification of what came back
DeviceFlowCall(op, url, grant_type, T) ==
    /\ \E net \in NetOutcomes :
       \E body \in IF net = "json" THEN Bodies ELSE {NoBody} :
       \E follow \in IF AsksAgain(call_outcome(net, body, T))
                     THEN FollowUps ELSE {NoBody} :
         LET r == single_attempt(net, body, follow, T)
         IN  wire' = [ op |-> op, url |-> url, grant_type |-> grant_type,
                       net |-> net, body |-> body, follow |-> follow,
                       exchanges |-> r.exchanges, outcome |-> r.outcome ]
    /\ UNCHANGED <<now, file, CONFIG, cfg, prof, last, issued>>

get_codepair ==
    DeviceFlowCall("get_codepair",
                   "https://api.amazon.com/auth/o2/create/codepair",
                   "", CodePairResponse)

perform_code_exchange ==
    DeviceFlowCall("perform_code_exchange",
                   "https://api.amazon.com/auth/o2/token",
                   "device_code", TokenResponse)

perform_token_refresh ==
    DeviceFlowCall("perform_token_refresh",
                   "https://api.amazon.com/auth/o2/token",
                   "refresh_token", TokenResponse)

(* --------------------------- specifications ---------------------------- *)

\* The store: two owners of a Config on one file, profiles built by
\* ConfigProfile::new / init with one credential set
Next ==
    \/ Tick(StoreMaxTime)
    \/ \E i \in Instances : Config_new(i)
    \/ \E i \in Instances : add_profile(i)
    \/ \E i \in Instances : write(i)
    \/ \E i \in Instances : read(i)
    \/ \E i \in Instances : Drop(i)
    \/ \E name \in Names : NewProfile(name)
    \/ \E e \in StoreExpiresIn : InitProfile(1, e)

Spec == Init /\ [][Next]_vars

\* A profile by itself, over every credential set and expires_in value
NextProfile ==
    \/ Tick(MaxTime)
    \/ \E name \in Names : NewProfile(name)
    \/ \E g \in Creds, e \in ExpiresInValues : InitProfile(g, e)

SpecProfile == Init /\ [][NextProfile]_vars

\* The export call on the static CONFIG, the file written by one owner
NextExport ==
    \/ Tick(MaxTime)
    \/ Config_new(1)
    \/ add_profile(1)
    \/ \E name \in Names : NewProfile(name)
    \/ \E g \in Creds, e \in ExportExpiresIn : InitProfile(g, e)
    \/ \E name \in Names : export_skill_package(name)

SpecExport == Init /\ [][NextExport]_vars

\* The device-flow client against a server that may answer anything
NextAuth ==
    \/ get_codepair
    \/ perform_code_exchange
    \/ perform_token_refresh

SpecAuth == Init /\ [][NextAuth]_vars

(* ------------------------------- claims -------------------------------- *)

\* a timestamp rounded down to the whole second
WholeSeconds(t) == t - (t % TicksPerSec)

\* a profile list with every expires_at rounded down to the whole second
AtSecondResolution(profiles) ==
    [ k \in 1..Len(profiles) |->
        [ profiles[k] EXCEPT !.expires_at =
            IF @ = <<>> THEN <<>> ELSE <<WholeSeconds(@[1])>> ] ]

AddReturnedOk == last.op = "add_profile" /\ last.result = "Ok"

\* C1 as stated: right after add_profile has returned success, the profile
\* collection in the store file equals the in-memory collection of that store.
C1_WriteThroughExact ==
    AddReturnedOk =>
        /\ file.state = "ok"
        /\ DeserializeConfig(file.profiles) = cfg[last.inst][1]

\* C1 amended: right after add_profile has returned success, the profile
\* collection in the store file equals the in-memory collection of that store
\* with every expires_at rounded down to the whole second.
C1_WriteThroughToTheSecond ==
    AddReturnedOk =>
        /\ file.state = "ok"
        /\ DeserializeConfig(file.profiles) = AtSecondResolution(cfg[last.inst][1])

\* add_profile has just succeeded on a store that holds a profile whose
\* expiry has a sub-second part
C1_Witness ==
    /\ AddReturnedOk
    /\ \E k \in 1..Len(cfg[last.inst][1]) :
         /\ cfg[last.inst][1][k].expires_at # <<>>
         /\ cfg[last.inst][1][k].expires_at[1] % TicksPerSec # 0

\* C2: add_profile returns AlreadyExists exactly when the store already holds
\* a profile of the given name, and such a call changes neither the in-memory
\* collection of any store nor the store file.
C2_DuplicateRejectedUnchanged ==
    [][ last'.op = "add_profile" =>
          /\ (last'.result = "AlreadyExists") <=>
                (\E k \in 1..Len(cfg[last'.inst][1]) :
                    cfg[last'.inst][1][k].name = last'.name)
          /\ last'.result = "AlreadyExists" => (cfg' = cfg /\ file' = file) ]_vars

\* add_profile has just returned AlreadyExists on a store whose profile of
\* that name differs from the one offered
C2_Witness ==
    /\ last.op = "add_profile"
    /\ last.result = "AlreadyExists"
    /\ prof # <<>>
    /\ \E k \in 1..Len(cfg[last.inst][1]) :
         /\ cfg[last.inst][1][k].name = prof[1].name
         /\ cfg[last.inst][1][k] # prof[1]

NamesUnique(profiles) ==
    \A j, k \in 1..Len(profiles) :
        profiles[j].name = profiles[k].name => j = k

\* C3: starting from no store file (or an unreadable one), under any sequence
\* of new, add_profile, write, read and drop by two owners of the same file,
\* no two profiles of an in-memory collection or of the file share a name.
C3_NamesUnique ==
    /\ \A i \in Instances : cfg[i] # <<>> => NamesUnique(cfg[i][1])
    /\ file.state = "ok" => NamesUnique(file.profiles)

\* a store has just read back two profiles from a file that the other owner,
\* which holds the same two names, has written
C3_Witness ==
    /\ last.op = "read"
    /\ last.result = "Ok"
    /\ Len(cfg[last.inst][1]) = 2
    /\ \E j \in Instances \ {last.inst} :
         /\ cfg[j] # <<>>
         /\ Len(cfg[j][1]) = 2
         /\ \A k \in 1..2 : cfg[j][1][k].name = cfg[last.inst][1][k].name

VisibleProfiles ==
    { prof[k] : k \in 1..Len(prof) }
    \cup UNION { { cfg[i][1][k] : k \in 1..Len(cfg[i][1]) }
                 : i \in { j \in Instances : cfg[j] # <<>> } }
    \cup { CONFIG.profiles[k] : k \in 1..Len(CONFIG.profiles) }
    \cup { file.profiles[k] : k \in 1..Len(file.profiles) }

\* the four lifecycle fields of p are all unset, or all set by one init call
FromOneInit(p) ==
    \/ /\ p.vendor_id = <<>>
       /\ p.access_token = <<>>
       /\ p.refresh_token = <<>>
       /\ p.expires_at = <<>>
    \/ \E g \in Creds :
       /\ p.vendor_id = << <<"vendor", g>> >>
       /\ p.access_token = << <<"access", g>> >>
       /\ p.refresh_token = << <<"refresh", g>> >>
       /\ p.expires_at # <<>>

AllProfiles ==
    { prof[k] : k \in 1..Len(prof) }
    \cup UNION { { cfg[i][1][k] : k \in 1..Len(cfg[i][1]) }
                 : i \in { j \in Instances : cfg[j] # <<>> } }
    \cup { CONFIG.profiles[k] : k \in 1..Len(CONFIG.profiles) }
    \cup { DeserializeConfig(file.profiles)[k] : k \in 1..Len(file.profiles) }

\* C6: for every profile and at every time, is_initialized() is true exactly
\* when the profile holds an access token, and is_valid() implies
\* is_initialized().
C6_InitializedAndValid ==
    \A p \in AllProfiles :
        /\ is_initialized(p) <=> (\E g \in Creds : p.access_token = << <<"access", g>> >>)
        /\ \A t \in 0..MaxTime : is_valid(p, t) => is_initialized(p)

\* the export has just checked a profile, and the program holds a valid
\* profile, an initialized one that is expired, and an uninitialized one
C6_Witness ==
    /\ last.op = "export"
    /\ \E p, q, r \in AllProfiles :
         /\ is_valid(p, now)
         /\ is_initialized(q) /\ ~is_valid(q, now)
         /\ ~is_initialized(r)

\* C7: export_skill_package sends a request only if CONFIG holds a profile of
\* the given name that is initialized and whose expires_at is after the time
\* of the check, and then the Authorization header is "Bearer " followed by
\* that profile's access_token; for an absent, uninitialized or expired
\* profile it fails with no request sent.
C7_ValidityGate ==
    last.op = "export" =>
        LET hits == { k \in 1..Len(CONFIG.profiles) :
                        CONFIG.profiles[k].name = last.name }
            usable == { k \in hits :
                        /\ CONFIG.profiles[k].access_token # <<>>
                        /\ CONFIG.profiles[k].expires_at # <<>>
                        /\ CONFIG.profiles[k].expires_at[1] > now }
        IN  /\ last.request # <<>> =>
                /\ CONFIG.state = "ready"
                /\ \E k \in usable :
                     last.request = << <<"Bearer ", CONFIG.profiles[k].access_token[1]>> >>
            /\ usable = {} =>
                /\ last.request = <<>>
                /\ last.result \in {"panic_config", "panic_not_found", "panic_not_valid"}
            /\ last.result \in {"Ok", "Err"} <=> last.request # <<>>

\* a request has just been sent for a valid profile while CONFIG also holds
\* another profile with another token
C7_Witness ==
    /\ last.op = "export"
    /\ last.request # <<>>
    /\ \E k \in 1..Len(CONFIG.profiles) :
         /\ CONFIG.profiles[k].name # last.name
         /\ CONFIG.profiles[k].access_token # <<>>
         /\ << "Bearer ", CONFIG.profiles[k].access_token[1] >> # last.request[1]

\* C8: when a store has just been written (write or add_profile returned
\* success) and the file is then read back by either owner, the collection
\* read equals the written one field for field and in the same order, with
\* expires_at equal to the whole second.
C8_RoundTrip ==
    [][ ( /\ last.op \in {"write", "add_profile"}
          /\ last.result = "Ok"
          /\ last'.op = "read"
          /\ last'.result = "Ok" )
        => cfg'[last'.inst][1] = AtSecondResolution(cfg[last.inst][1]) ]_vars

\* a read has just returned two profiles, one uninitialized and one with an
\* expiry, in a file written from a store that holds a sub-second expiry
C8_Witness ==
    /\ last.op = "read"
    /\ last.result = "Ok"
    /\ Len(cfg[last.inst][1]) = 2
    /\ \E k \in 1..2 : cfg[last.inst][1][k].expires_at # <<>>
    /\ \E k \in 1..2 : cfg[last.inst][1][k].expires_at = <<>>
    /\ \E j \in Instances \ {last.inst} :
         /\ cfg[j] # <<>>
         /\ cfg[j][1] # cfg[last.inst][1]
         /\ AtSecondResolution(cfg[j][1]) = cfg[last.inst][1]

SuccessShape(op) ==
    IF op = "get_codepair" THEN CodePairResponse ELSE TokenResponse

\* C10: for each of get_codepair, perform_code_exchange and
\* perform_token_refresh alike, a JSON body that decodes as an error envelope
\* is classified as an error (a taxonomy member, or the unknown-code failure),
\* never as a success, also when it decodes as the success shape too; a
\* success is returned only for a body that does not decode as an error
\* envelope and does decode as the operation's success shape.
C10_ErrorEnvelopeFirst ==
    (wire.op \in {"get_codepair", "perform_code_exchange", "perform_token_refresh"}
        /\ wire.net = "json") =>
        /\ from_value_is_ok(wire.body, ErrorResponse) =>
             \/ wire.outcome.kind = "Err" /\ wire.outcome.value # "FetchError"
             \/ wire.outcome = [ kind |-> "panic", value |-> "Unknown error type" ]
        /\ wire.outcome.kind = "Ok" =>
             /\ ~from_value_is_ok(wire.body, ErrorResponse)
             /\ from_value_is_ok(wire.body, SuccessShape(wire.op))

\* a body that decodes both as an error envelope and as the token success
\* shape has just been classified as the error
C10_Witness ==
    /\ wire.op = "perform_token_refresh"
    /\ wire.net = "json"
    /\ from_value_is_ok(wire.body, ErrorResponse)
    /\ from_value_is_ok(wire.body, TokenResponse)
    /\ wire.outcome = [ kind |-> "Err", value |-> "SlowDown" ]

DeviceFlowOps == {"get_codepair", "perform_code_exchange", "perform_token_refresh"}

\* the error codes the taxonomy knows
KnownErrorCodes ==
    { "invalid_request", "unauthorized_client", "access_denied",
      "unsupported_response_type", "invalid_scope", "server_error",
      "temporarily_unavailable", "authorization_pending", "slow_down",
      "expired_token" }

\* the body is an error envelope with a code outside the known set, or
\* matches neither the error shape nor the success shape of the operation
ContractViolated ==
    /\ wire.op \in DeviceFlowOps
    /\ wire.net = "json"
    /\ IF from_value_is_ok(wire.body, ErrorResponse)
       THEN error_of(wire.body) \notin KnownErrorCodes
       ELSE ~from_value_is_ok(wire.body, SuccessShape(wire.op))

\* C11: an error envelope with an unknown code, or a body of neither shape,
\* makes the call return a typed malformed-response error to its caller
\* after its one request: not a success, not a taxonomy member guessed from
\* the code, not a retry.
C11_TypedContractViolation ==
    ContractViolated =>
        /\ wire.outcome = [ kind |-> "Err", value |-> "ParseError" ]
        /\ wire.exchanges = 1

\* C12: every call of the three operations makes exactly one network
\* exchange; an authorization_pending or slow_down envelope and a transport
\* failure are each handed straight to the caller as AuthorizationPending,
\* SlowDown and FetchError, whatever a second request would have been
\* answered.
C12_SingleAttempt ==
    wire.op \in DeviceFlowOps =>
        /\ wire.exchanges = 1
        /\ wire.net # "json" =>
             wire.outcome = [ kind |-> "Err", value |-> "FetchError" ]
        /\ ( /\ wire.net = "json"
             /\ wire.body.kind = "object"
             /\ wire.body.fields["error"].t = "str"
             /\ wire.body.fields["error_description"].t \in {"absent", "null", "str"} )
           => /\ wire.body.fields["error"].s = "authorization_pending" =>
                   wire.outcome = [ kind |-> "Err", value |-> "AuthorizationPending" ]
              /\ wire.body.fields["error"].s = "slow_down" =>
                   wire.outcome = [ kind |-> "Err", value |-> "SlowDown" ]

\* a poll has just been answered authorization_pending, the server would
\* have answered a second request with the tokens, and the caller holds
\* AuthorizationPending
C12_Witness ==
    /\ wire.op = "perform_code_exchange"
    /\ wire.net = "json"
    /\ wire.outcome = [ kind |-> "Err", value |-> "AuthorizationPending" ]
    /\ from_value_is_ok(wire.follow, TokenResponse)
    /\ wire.exchanges = 1

\* the names of the profiles in the store file
HasName(doc, name) == \E k \in 1..Len(doc) : doc[k].name = name

\* C16 as stated: when two flows, each with its own store loaded from the
\* same file, add profiles of different names, no successful add_profile
\* removes or alters a profile the file already held, so the file ends up
\* with both profiles in every interleaving.
C16_BothProfilesKept ==
    [][ (last'.op = "add_profile" /\ last'.result = "Ok") =>
          /\ HasName(file'.profiles, last'.name)
          /\ \A k \in 1..Len(file.profiles) :
               \E m \in 1..Len(file'.profiles) :
                  file'.profiles[m] = file.profiles[k] ]_vars

\* C16, amended: a successful add_profile leaves the file holding the
\* adding store's collection, the new profile included; a profile the file
\* held before survives exactly when the adding store holds it in memory,
\* so the other flow's profile is lost when the adding store loaded the file
\* before the other flow wrote it.
C16_LastWriterWins ==
    [][ (last'.op = "add_profile" /\ last'.result = "Ok") =>
          LET mine == cfg'[last'.inst][1]
          IN /\ file'.state = "ok"
             /\ HasName(file'.profiles, last'.name)
             /\ \A k \in 1..Len(file.profiles) :
                  (\E m \in 1..Len(file'.profiles) :
                      file'.profiles[m] = file.profiles[k])
                  <=> (\E m \in 1..Len(mine) :
                      SerializeProfile(mine[m]) = file.profiles[k]) ]_vars

\* add_profile has just succeeded on one store while the other store holds a
\* profile of another name that the file no longer holds
C16_Witness ==
    /\ AddReturnedOk
    /\ \E j \in Instances \ {last.inst} :
         /\ is_some(cfg[j])
         /\ \E k \in 1..Len(cfg[j][1]) :
              /\ cfg[j][1][k].name # last.name
              /\ ~HasName(file.profiles, cfg[j][1][k].name)
              /\ ~HasName(cfg[last.inst][1], cfg[j][1][k].name)

\* C17 as stated: a profile initialised at time t with expires_in = E is
\* valid at a later time t' exactly when t' < t + E (never, when E = 0), at
\* every time of asking until the next init.
C17_ValidUntilExpiry ==
    (is_some(prof) /\ is_some(issued)) =>
        (is_valid(unwrap(prof), now) <=>
            now < unwrap(issued).at + unwrap(issued).expires_in * TicksPerSec)

\* the variant each of the ten error strings stands for
VariantOf ==
    { <<"invalid_request", "InvalidRequest">>,
      <<"unauthorized_client", "UnauthorizedClient">>,
      <<"access_denied", "AccessDenied">>,
      <<"unsupported_response_type", "UnsupportedResponseType">>,
      <<"invalid_scope", "InvalidScope">>,
      <<"server_error", "ServerError">>,
      <<"temporarily_unavailable", "TemporarilyUnavailable">>,
      <<"authorization_pending", "AuthorizationPending">>,
      <<"slow_down", "SlowDown">>,
      <<"expired_token", "ExpiredToken">> }

\* the body of the last call deserialized as an error envelope
IsEnvelope ==
    /\ wire.op \in DeviceFlowOps
    /\ wire.net = "json"
    /\ from_value_is_ok(wire.body, ErrorResponse)

\* C18: an error envelope is decoded by exact match of its error string: each
\* of the ten strings gives its own variant, a different variant for each
\* string, whatever error_description holds; any other string, a different
\* letter case included, gives none of the ten variants.
C18_ExactOneToOne ==
    /\ Cardinality({ pv[2] : pv \in VariantOf }) = Cardinality(VariantOf)
    /\ { pv[1] : pv \in VariantOf } = KnownErrorCodes
    /\ IsEnvelope =>
         /\ \A pv \in VariantOf :
              error_of(wire.body) = pv[1] =>
                  wire.outcome = [ kind |-> "Err", value |-> pv[2] ]
         /\ error_of(wire.body) \notin KnownErrorCodes =>
              \A pv \in VariantOf :
                  wire.outcome # [ kind |-> "Err", value |-> pv[2] ]

\* an envelope holding slow_down and a description has been decoded
C18_Witness ==
    /\ IsEnvelope
    /\ wire.body.kind = "object"
    /\ error_of(wire.body) = "slow_down"
    /\ wire.body.fields.error_description.t = "str"
    /\ wire.outcome = [ kind |-> "Err", value |-> "SlowDown" ]

\* C19: dropping a store never raises: when the flush succeeds the file is
\* that store's in-memory collection whatever the file held before, and when
\* it fails the failure is only printed; a successful write does the same,
\* and the temporary store dropped inside read writes back what it loaded.
C19_TeardownFlush ==
    [][ /\ last'.op = "drop" =>
           /\ last'.result = "Ok"
           /\ cfg'[last'.inst] = None
           /\ IF last'.name = ""
              THEN /\ file'.state = "ok"
                   /\ DeserializeConfig(file'.profiles)
                        = AtSecondResolution(cfg[last'.inst][1])
              ELSE /\ last'.name = "Failed to write config"
                   /\ file' \in {file, FileMalformed}
        /\ (last'.op = "write" /\ last'.result = "Ok") =>
           /\ file'.state = "ok"
           /\ DeserializeConfig(file'.profiles)
                = AtSecondResolution(cfg[last'.inst][1])
        /\ (last'.op = "read" /\ last'.result = "Ok") =>
           file' \in {file, FileMalformed} ]_vars

\* a store has just been dropped with a successful flush while the other
\* store holds a profile that the file, now the dropped store's collection,
\* does not hold
C19_Witness ==
    /\ last.op = "drop"
    /\ last.name = ""
    /\ file.state = "ok"
    /\ \E j \in Instances \ {last.inst} :
         /\ is_some(cfg[j])
         /\ \E k \in 1..Len(cfg[j][1]) :
              ~HasName(file.profiles, cfg[j][1][k].name)

\* C20 as stated: an add_profile that returns an error of any kind leaves the
\* in-memory collection of its store as it was before the call.
C20_AddAllOrNothing ==
    [][ (last'.op = "add_profile" /\ last'.result # "Ok") =>
          cfg'[last'.inst] = cfg[last'.inst] ]_vars

====
